---- MODULE Spec2Model ----
(***************************************************************************)
(* jikanpy/utils.py: the URL builders of the Jikan client and the response *)
(* validator / annotator.  Python strings are TLA+ strings, Python values  *)
(* whose type is a Union or an Optional are tagged records (PyVal), an     *)
(* mapping (kwargs, parameters, the response body, the headers) is a       *)
(* sequence of <<key, value>> pairs with distinct keys, in the mapping's   *)
(* iteration order.                                                        *)
(***************************************************************************)
EXTENDS Integers, Sequences, FiniteSets, TLC

VARIABLES op, args, url,
          pc, response_dict, status, kwargs, response, jikan_url,
          received, err_str, calls

urlvars == <<op, args, url>>
respvars == <<pc, response_dict, status, kwargs, response, jikan_url,
              received, err_str, calls>>
vars == <<op, args, url, pc, response_dict, status, kwargs, response,
          jikan_url, received, err_str, calls>>

(* ------------------------------ bounds --------------------------------- *)

MaxPage == 2
MaxParams == 2
MaxCalls == 2

(* --------------------------- Python values ----------------------------- *)

NoneV == [t |-> "none", i |-> 0, s |-> "", m |-> <<>>]
IntV(n) == [t |-> "int", i |-> n, s |-> "", m |-> <<>>]
StrV(x) == [t |-> "str", i |-> 0, s |-> x, m |-> <<>>]
MapV(d) == [t |-> "map", i |-> 0, s |-> "", m |-> d]

Digits == "0123456789"
UpperChars == "ABCDEFGHIJKLMNOPQRSTUVWXYZ"
LowerChars == "abcdefghijklmnopqrstuvwxyz"

Char(s, j) == SubSeq(s, j, j)

RECURSIVE IntStr(_)
IntStr(n) ==
  IF n < 0 THEN "-" \o IntStr(0 - n)
  ELSE IF n < 10 THEN Char(Digits, n + 1)
  ELSE IntStr(n \div 10) \o Char(Digits, (n % 10) + 1)

LowerChar(c) ==
  IF \E j \in 1..26 : Char(UpperChars, j) = c
  THEN Char(LowerChars, CHOOSE j \in 1..26 : Char(UpperChars, j) = c)
  ELSE c

RECURSIVE Lower(_)
Lower(s) ==
  IF s = "" THEN ""
  ELSE LowerChar(Char(s, 1)) \o Lower(SubSeq(s, 2, Len(s)))

PyStr(v) ==
  CASE v.t = "none" -> "None"
    [] v.t = "int" -> IntStr(v.i)
    [] v.t = "str" -> v.s

RECURSIVE Join(_, _)
Join(sep, parts) ==
  IF parts = <<>> THEN ""
  ELSE IF Len(parts) = 1 THEN parts[1]
  ELSE parts[1] \o sep \o Join(sep, Tail(parts))

Keys(d) == {d[j][1] : j \in 1..Len(d)}

DictGet(d, k, default) ==
  IF k \in Keys(d)
  THEN d[CHOOSE j \in 1..Len(d) : d[j][1] = k][2]
  ELSE default

\* d[k] = v: an existing key keeps its place, a new key goes last.
DictSet(d, k, v) ==
  IF k \in Keys(d)
  THEN [j \in 1..Len(d) |-> IF d[j][1] = k THEN <<k, v>> ELSE d[j]]
  ELSE Append(d, <<k, v>>)

\* dict(response.headers): the header collection (name, text pairs, each
\* name once) copied into a plain mapping.
HeaderDict(headers) ==
  [j \in 1..Len(headers) |-> <<headers[j][1], StrV(headers[j][2])>>]

(* ----------------------------- utils.py -------------------------------- *)

BASE_URL == "https://api.jikan.moe/v3"

\* check_response with the comparison written > 400.
check_response_gt(body, response_status_code, kw) ==
  IF response_status_code > 400
  THEN LET error_msg == DictGet(body, "error", StrV(""))
           head == IntStr(response_status_code) \o " " \o PyStr(error_msg)
                     \o ": error for "
           pairs == [j \in 1..Len(kw) |->
                       Join("=", <<kw[j][1], PyStr(kw[j][2])>>)]
       IN  [raised |-> TRUE, err_str |-> head \o Join(", ", pairs)]
  ELSE [raised |-> FALSE, err_str |-> ""]

\* check_response raising on server errors (>= 500) only.
check_response_5xx(body, response_status_code, kw) ==
  IF response_status_code >= 500
  THEN LET error_msg == DictGet(body, "error", StrV(""))
           head == IntStr(response_status_code) \o " " \o PyStr(error_msg)
                     \o ": error for "
           pairs == [j \in 1..Len(kw) |->
                       Join("=", <<kw[j][1], PyStr(kw[j][2])>>)]
       IN  [raised |-> TRUE, err_str |-> head \o Join(", ", pairs)]
  ELSE [raised |-> FALSE, err_str |-> ""]

\* check_response with response_dict.get("error"), the default left out.
check_response_nodefault(body, response_status_code, kw) ==
  IF response_status_code >= 400
  THEN LET error_msg == DictGet(body, "error", NoneV)
           head == IntStr(response_status_code) \o " " \o PyStr(error_msg)
                     \o ": error for "
           pairs == [j \in 1..Len(kw) |->
                       Join("=", <<kw[j][1], PyStr(kw[j][2])>>)]
       IN  [raised |-> TRUE, err_str |-> head \o Join(", ", pairs)]
  ELSE [raised |-> FALSE, err_str |-> ""]

check_response(body, response_status_code, kw) ==
  IF response_status_code >= 400
  THEN LET error_msg == DictGet(body, "error", StrV(""))
           head == IntStr(response_status_code) \o " " \o PyStr(error_msg)
                     \o ": error for "
           pairs == [j \in 1..Len(kw) |->
                       Join("=", <<kw[j][1], PyStr(kw[j][2])>>)]
       IN  [raised |-> TRUE, err_str |-> head \o Join(", ", pairs)]
  ELSE [raised |-> FALSE, err_str |-> ""]

\* add_jikan_metadata returning a fresh mapping of the two keys only.
add_jikan_metadata_fresh(resp, body, u) ==
  DictSet(DictSet(<<>>, "jikan_url", StrV(u)),
          "headers", MapV(HeaderDict(resp.headers)))

add_jikan_metadata(resp, body, u) ==
  DictSet(DictSet(body, "jikan_url", StrV(u)),
          "headers", MapV(HeaderDict(resp.headers)))

\* get_url_with_page without the test for an absent page.
get_url_with_page_always(u, page, delimiter) ==
  u \o delimiter \o PyStr(page)

get_url_with_page(u, page, delimiter) ==
  IF page = NoneV THEN u ELSE u \o delimiter \o PyStr(page)

get_main_url(base_url, endpoint, id, extension, page) ==
  LET u == base_url \o "/" \o endpoint \o "/" \o IntStr(id)
  IN  IF extension # NoneV
      THEN get_url_with_page(u \o "/" \o PyStr(extension), page, "/")
      ELSE u

get_creator_url(base_url, creator_type, creator_id, page) ==
  get_url_with_page(base_url \o "/" \o creator_type \o "/"
                      \o IntStr(creator_id), page, "/")

\* get_search_url appending the parameter pairs before the page.
get_search_url_params_first(base_url, search_type, query, page, parameters) ==
  LET u == base_url \o "/search/" \o search_type \o "?q=" \o query
      v == IF parameters # NoneV
           THEN u \o Join("", [j \in 1..Len(parameters.m) |->
                                 "&" \o parameters.m[j][1] \o "="
                                   \o PyStr(parameters.m[j][2])])
           ELSE u
  IN  get_url_with_page(v, page, "&page=")

get_search_url(base_url, search_type, query, page, parameters) ==
  LET u == get_url_with_page(base_url \o "/search/" \o search_type
                               \o "?q=" \o query, page, "&page=")
  IN  IF parameters # NoneV
      THEN u \o Join("", [j \in 1..Len(parameters.m) |->
                            "&" \o parameters.m[j][1] \o "="
                              \o PyStr(parameters.m[j][2])])
      ELSE u

get_season_url(base_url, year, season) ==
  base_url \o "/season/" \o IntStr(year) \o "/" \o Lower(season)

get_schedule_url(base_url, day) ==
  LET base_schedule_url == base_url \o "/schedule"
  IN  IF day = NoneV THEN base_schedule_url
      ELSE base_schedule_url \o "/" \o Lower(PyStr(day))

get_season_archive_url(base_url) == base_url \o "/season/archive"

get_season_later_url(base_url) == base_url \o "/season/later"

\* get_top_url appending the subtype before the page.
get_top_url_subtype_first(base_url, type, page, subtype) ==
  LET u == base_url \o "/top/" \o Lower(type)
      v == IF subtype = NoneV THEN u ELSE u \o "/" \o Lower(PyStr(subtype))
  IN  get_url_with_page(v, page, "/")

get_top_url(base_url, type, page, subtype) ==
  LET u == get_url_with_page(base_url \o "/top/" \o Lower(type), page, "/")
  IN  IF subtype = NoneV THEN u ELSE u \o "/" \o Lower(PyStr(subtype))

get_genre_url(base_url, type, genre_id, page) ==
  get_url_with_page(base_url \o "/genre/" \o Lower(type) \o "/"
                      \o IntStr(genre_id), page, "/")

\* get_user_url lower-casing the URL instead of the username.
get_user_url_lowered(base_url, username, request, argument, page, parameters) ==
  LET u0 == Lower(base_url \o "/user/" \o username)
      u1 == IF request # NoneV
            THEN get_url_with_page(
                   u0 \o "/" \o PyStr(request)
                      \o (IF argument # NoneV
                          THEN "/" \o PyStr(argument) ELSE ""),
                   page, "/")
            ELSE u0
  IN  IF parameters # NoneV
      THEN u1 \o "?" \o Join("&", [j \in 1..Len(parameters.m) |->
                                     parameters.m[j][1] \o "="
                                       \o PyStr(parameters.m[j][2])])
      ELSE u1

\* get_user_url appending the page outside the test for a request.
get_user_url_page_outside(base_url, username, request, argument, page, parameters) ==
  LET u0 == base_url \o "/user/" \o Lower(username)
      u1 == get_url_with_page(
              IF request # NoneV
              THEN u0 \o "/" \o PyStr(request)
                      \o (IF argument # NoneV
                          THEN "/" \o PyStr(argument) ELSE "")
              ELSE u0,
              page, "/")
  IN  IF parameters # NoneV
      THEN u1 \o "?" \o Join("&", [j \in 1..Len(parameters.m) |->
                                     parameters.m[j][1] \o "="
                                       \o PyStr(parameters.m[j][2])])
      ELSE u1

get_user_url(base_url, username, request, argument, page, parameters) ==
  LET u0 == base_url \o "/user/" \o Lower(username)
      u1 == IF request # NoneV
            THEN get_url_with_page(
                   u0 \o "/" \o PyStr(request)
                      \o (IF argument # NoneV
                          THEN "/" \o PyStr(argument) ELSE ""),
                   page, "/")
            ELSE u0
  IN  IF parameters # NoneV
      THEN u1 \o "?" \o Join("&", [j \in 1..Len(parameters.m) |->
                                     parameters.m[j][1] \o "="
                                       \o PyStr(parameters.m[j][2])])
      ELSE u1

\* get_meta_url testing type or period instead of type and period.
get_meta_url_either(base_url, request, type, period, offset) ==
  LET u == base_url \o "/meta/" \o request
  IN  get_url_with_page(
        IF type # NoneV \/ period # NoneV
        THEN u \o "/" \o PyStr(type) \o "/" \o PyStr(period)
        ELSE u,
        offset, "/")

get_meta_url(base_url, request, type, period, offset) ==
  LET u == base_url \o "/meta/" \o request
  IN  get_url_with_page(
        IF type # NoneV /\ period # NoneV
        THEN u \o "/" \o PyStr(type) \o "/" \o PyStr(period)
        ELSE u,
        offset, "/")

(* ------------------------------ inputs --------------------------------- *)

Bases == {BASE_URL, "http://Localhost:8000/V3"}
Pages == {NoneV} \cup {IntV(p) : p \in 1..MaxPage}
Ids == {1, 5114}

\* The mappings over keys K and values V of at most MaxParams entries.
Mappings(K, V) ==
  UNION {{d \in [1..n -> K \X V] :
            \A a, b \in 1..n : d[a][1] = d[b][1] => a = b} : n \in 0..MaxParams}

ParamKeys == {"type", "genre", "rated"}
ParamVals == {StrV("tv"), IntV(1)}
Parameters == {NoneV} \cup {MapV(d) : d \in Mappings(ParamKeys, ParamVals)}

KwKeys == {"id", "endpoint"}
KwVals == {IntV(5114), NoneV}
Bodies ==
  { <<>>,
    << <<"a", IntV(1)>> >>,
    << <<"error", StrV("Not Found")>> >>,
    << <<"a", IntV(1)>>, <<"error", StrV("Bad Request")>> >>,
    << <<"jikan_url", StrV("stale")>>, <<"a", IntV(1)>> >> }
Statuses == {200, 399, 400, 404, 500}
Headers ==
  { <<>>,
    << <<"Content-Type", "json">> >>,
    << <<"Content-Type", "json">>, <<"ETag", "abc">> >> }
Urls == {"https://x/y", get_season_later_url(BASE_URL)}

(* --------------------------- state machine ----------------------------- *)

Init ==
  /\ op = "none" /\ args = <<>> /\ url = ""
  /\ pc = "idle" /\ response_dict = <<>> /\ received = <<>>
  /\ status = 0 /\ kwargs = <<>> /\ response = [headers |-> <<>>]
  /\ jikan_url = "" /\ err_str = "" /\ calls = 0

MainUrl ==
  \E b \in Bases, e \in {"anime", "Character"}, i \in Ids,
     x \in {NoneV, StrV("episodes"), StrV("characters_staff")}, p \in Pages :
    /\ op = "none"
    /\ op' = "main"
    /\ args' = [base_url |-> b, endpoint |-> e, id |-> i, extension |-> x,
                page |-> p]
    /\ url' = get_main_url(b, e, i, x, p)
    /\ UNCHANGED respvars

CreatorUrl ==
  \E b \in Bases, c \in {"producer", "magazine"}, i \in Ids, p \in Pages :
    /\ op = "none"
    /\ op' = "creator"
    /\ args' = [base_url |-> b, creator_type |-> c, creator_id |-> i,
                page |-> p]
    /\ url' = get_creator_url(b, c, i, p)
    /\ UNCHANGED respvars

SearchUrl ==
  \E b \in Bases, t \in {"anime", "manga"}, q \in {"naruto", "One Piece"},
     p \in Pages, ps \in Parameters :
    /\ op = "none"
    /\ op' = "search"
    /\ args' = [base_url |-> b, search_type |-> t, query |-> q, page |-> p,
                parameters |-> ps]
    /\ url' = get_search_url(b, t, q, p, ps)
    /\ UNCHANGED respvars

SeasonUrl ==
  \E b \in Bases, y \in {2018, 2023}, sn \in {"Summer", "winter", "FALL"} :
    /\ op = "none"
    /\ op' = "season"
    /\ args' = [base_url |-> b, year |-> y, season |-> sn]
    /\ url' = get_season_url(b, y, sn)
    /\ UNCHANGED respvars

ScheduleUrl ==
  \E b \in Bases, d \in {NoneV, StrV("Monday"), StrV("other")} :
    /\ op = "none"
    /\ op' = "schedule"
    /\ args' = [base_url |-> b, day |-> d]
    /\ url' = get_schedule_url(b, d)
    /\ UNCHANGED respvars

SeasonArchiveUrl ==
  \E b \in Bases :
    /\ op = "none"
    /\ op' = "season_archive"
    /\ args' = [base_url |-> b]
    /\ url' = get_season_archive_url(b)
    /\ UNCHANGED respvars

SeasonLaterUrl ==
  \E b \in Bases :
    /\ op = "none"
    /\ op' = "season_later"
    /\ args' = [base_url |-> b]
    /\ url' = get_season_later_url(b)
    /\ UNCHANGED respvars

TopUrl ==
  \E b \in Bases, t \in {"anime", "Manga"}, p \in Pages,
     st \in {NoneV, StrV("airing"), StrV("TV")} :
    /\ op = "none"
    /\ op' = "top"
    /\ args' = [base_url |-> b, type |-> t, page |-> p, subtype |-> st]
    /\ url' = get_top_url(b, t, p, st)
    /\ UNCHANGED respvars

GenreUrl ==
  \E b \in Bases, t \in {"anime", "Manga"}, g \in Ids, p \in Pages :
    /\ op = "none"
    /\ op' = "genre"
    /\ args' = [base_url |-> b, type |-> t, genre_id |-> g, page |-> p]
    /\ url' = get_genre_url(b, t, g, p)
    /\ UNCHANGED respvars

UserUrl ==
  \E b \in Bases, u \in {"nekomata1037", "Xinil"},
     r \in {NoneV, StrV("animelist"), StrV("History")},
     a \in {NoneV, StrV("Watching"), IntV(2)}, p \in Pages,
     ps \in Parameters :
    /\ op = "none"
    /\ op' = "user"
    /\ args' = [base_url |-> b, username |-> u, request |-> r,
                argument |-> a, page |-> p, parameters |-> ps]
    /\ url' = get_user_url(b, u, r, a, p, ps)
    /\ UNCHANGED respvars

MetaUrl ==
  \E b \in Bases, r \in {"requests", "Status"},
     t \in {NoneV, StrV("Anime")}, pd \in {NoneV, StrV("Today")},
     o \in Pages :
    /\ op = "none"
    /\ op' = "meta"
    /\ args' = [base_url |-> b, request |-> r, type |-> t, period |-> pd,
                offset |-> o]
    /\ url' = get_meta_url(b, r, t, pd, o)
    /\ UNCHANGED respvars

\* Each behaviour is one call of one builder on one choice of arguments.
Next ==
  \/ MainUrl \/ CreatorUrl \/ SearchUrl \/ SeasonUrl \/ ScheduleUrl
  \/ SeasonArchiveUrl \/ SeasonLaterUrl \/ TopUrl \/ GenreUrl \/ UserUrl
  \/ MetaUrl

Spec == Init /\ [][Next]_vars

\* The request pipeline of the client around the two response helpers: the
\* parsed body, status and headers of one response arrive, check_response
\* runs, and add_jikan_metadata runs only if it returned.  calls counts the
\* calls of add_jikan_metadata on this response.
Receive ==
  \E body \in Bodies, st \in Statuses, kw \in Mappings(KwKeys, KwVals),
     h \in Headers, u \in Urls :
    /\ pc = "idle"
    /\ pc' = "received"
    /\ response_dict' = body /\ received' = body
    /\ status' = st /\ kwargs' = kw
    /\ response' = [headers |-> h]
    /\ jikan_url' = u /\ err_str' = "" /\ calls' = 0
    /\ UNCHANGED urlvars

CheckResponse ==
  /\ pc = "received"
  /\ LET r == check_response(response_dict, status, kwargs)
     IN  /\ pc' = IF r.raised THEN "raised" ELSE "checked"
         /\ err_str' = r.err_str
  /\ UNCHANGED <<response_dict, received, status, kwargs, response,
                 jikan_url, calls>>
  /\ UNCHANGED urlvars

AddJikanMetadata ==
  /\ pc \in {"checked", "done"}
  /\ calls < MaxCalls
  /\ pc' = "done" /\ calls' = calls + 1
  /\ response_dict' = add_jikan_metadata(response, response_dict, jikan_url)
  /\ UNCHANGED <<received, status, kwargs, response, jikan_url, err_str>>
  /\ UNCHANGED urlvars

Finish ==
  /\ pc \in {"raised", "done"}
  /\ pc' = "idle" /\ response_dict' = <<>> /\ received' = <<>>
  /\ status' = 0 /\ kwargs' = <<>> /\ response' = [headers |-> <<>>]
  /\ jikan_url' = "" /\ err_str' = "" /\ calls' = 0
  /\ UNCHANGED urlvars

NextPipeline == Receive \/ CheckResponse \/ AddJikanMetadata \/ Finish

SpecPipeline == Init /\ [][NextPipeline]_vars

(* ------------------------- reading a string ---------------------------- *)

StartsWith(s, prefix) ==
  Len(prefix) <= Len(s) /\ SubSeq(s, 1, Len(prefix)) = prefix

Drop(s, n) == SubSeq(s, n + 1, Len(s))

\* The pieces of s between the occurrences of sep, left to right.
RECURSIVE Split(_, _)
Split(s, sep) ==
  LET at == {j \in 1..(Len(s) - Len(sep) + 1) :
               SubSeq(s, j, j + Len(sep) - 1) = sep}
  IN  IF at = {} THEN <<s>>
      ELSE LET j == CHOOSE a \in at : \A b \in at : a <= b
           IN  <<SubSeq(s, 1, j - 1)>> \o Split(Drop(s, j + Len(sep) - 1), sep)

(* --------------------- claims on the response helpers ------------------ *)

Checked == pc \in {"raised", "checked", "done"}

\* C1: check_response raises if and only if the status is >= 400 (399
\* returns, 400 raises), and the message of the error starts with the status
\* followed by a space.
C1_RaisesIffStatusAtLeast400 ==
  /\ Checked => (pc = "raised" <=> status >= 400)
  /\ pc = "raised" => StartsWith(err_str, IntStr(status) \o " ")
  /\ pc = "raised" /\ status = 400 => SubSeq(err_str, 1, 4) = "400 "
  /\ Checked /\ status = 399 => pc # "raised" /\ err_str = ""

C1_Witness ==
  pc = "raised" /\ status = 400 /\ received # <<>> /\ kwargs # <<>>

\* C2: in the pipeline check_response then add_jikan_metadata, the keys
\* "jikan_url" and "headers" are added only when the status is < 400; when
\* it is >= 400 the error is raised, add_jikan_metadata is never reached and
\* the body is exactly the body received.  check_response itself never
\* changes the body.
C2_MetadataOnlyOnSuccess ==
  /\ response_dict # received => status < 400 /\ pc = "done"
  /\ calls > 0 => status < 400
  /\ Checked /\ status >= 400 =>
       pc = "raised" /\ calls = 0 /\ response_dict = received
  /\ pc = "checked" => response_dict = received
  /\ pc = "done" => {"jikan_url", "headers"} \subseteq Keys(response_dict)

C2_Witness ==
  /\ pc = "raised" /\ status = 404 /\ response_dict = received
  /\ Keys(response_dict) = {"a", "error"}

\* C8: the message of the error is "<status> <error-text>: error for
\* <k1>=<v1>, <k2>=<v2>, ...", the error text being the body's "error" field
\* or empty when the body has none, and the context pairs in the order of
\* the caller's mapping.
C8_ErrorMessageShape ==
  pc = "raised" =>
    LET text == IF "error" \in Keys(received)
                THEN DictGet(received, "error", NoneV).s ELSE ""
        head == IntStr(status) \o " " \o text \o ": error for "
        pairs == Split(Drop(err_str, Len(head)), ", ")
    IN  /\ StartsWith(err_str, head)
        /\ kwargs = <<>> => err_str = head
        /\ kwargs # <<>> =>
             /\ Len(pairs) = Len(kwargs)
             /\ \A j \in 1..Len(kwargs) :
                  pairs[j] = kwargs[j][1] \o "=" \o PyStr(kwargs[j][2])
        /\ received = <<>> /\ status = 500 =>
             StartsWith(err_str, "500 : error for ")
        /\ /\ status = 404
           /\ received = << <<"error", StrV("Not Found")>> >>
           /\ kwargs = << <<"id", IntV(5114)>>, <<"endpoint", NoneV>> >>
           => err_str = "404 Not Found: error for id=5114, endpoint=None"

C8_Witness ==
  /\ pc = "raised" /\ status = 500 /\ received = <<>>
  /\ kwargs = << <<"endpoint", NoneV>>, <<"id", IntV(5114)>> >>

\* C9: add_jikan_metadata leaves a body whose "jikan_url" is the url and
\* whose "headers" is the plain mapping of the response headers, every other
\* key keeping its value; a second call with the same arguments leaves the
\* body unchanged.
C9_BodyAnnotated ==
  pc = "done" =>
    /\ Keys(response_dict) = Keys(received) \cup {"jikan_url", "headers"}
    /\ Len(response_dict) = Cardinality(Keys(response_dict))
    /\ DictGet(response_dict, "jikan_url", NoneV) = StrV(jikan_url)
    /\ LET h == DictGet(response_dict, "headers", NoneV)
       IN  /\ h.t = "map"
           /\ Len(h.m) = Len(response.headers)
           /\ \A j \in 1..Len(h.m) :
                /\ h.m[j][1] = response.headers[j][1]
                /\ h.m[j][2] = StrV(response.headers[j][2])
    /\ \A k \in Keys(received) \ {"jikan_url", "headers"} :
         DictGet(response_dict, k, NoneV) = DictGet(received, k, NoneV)
    /\ /\ received = << <<"a", IntV(1)>> >>
       /\ jikan_url = "https://x/y"
       /\ response.headers = << <<"Content-Type", "json">> >>
       => response_dict =
            << <<"a", IntV(1)>>, <<"jikan_url", StrV("https://x/y")>>,
               <<"headers", MapV(<< <<"Content-Type", StrV("json")>> >>)>> >>

C9_SecondCallChangesNothing ==
  pc = "done" /\ pc' = "done" => response_dict' = response_dict

C9_AddJikanMetadata ==
  [] C9_BodyAnnotated /\ [][C9_SecondCallChangesNothing]_vars

C9_Witness ==
  /\ pc = "done" /\ calls = 2
  /\ received = << <<"a", IntV(1)>> >>
  /\ jikan_url = "https://x/y"
  /\ response.headers = << <<"Content-Type", "json">> >>

(* ------------------------ claims on the URL builders ------------------- *)

B(cond) == IF cond THEN 1 ELSE 0

\* The URL after the base URL and its "/".
Path == Drop(url, Len(args.base_url) + 1)
\* The "/"-separated segments of the path, a query block left out.
Segments == Split(Split(Path, "?")[1], "/")
\* The "&"-separated pieces of the URL.
Pieces == Split(Path, "&")

TakesPage == op \in {"main", "creator", "search", "top", "genre", "user",
                     "meta"}
PageArg == IF op = "meta" THEN args.offset ELSE args.page

\* The number of path segments the other arguments give, and the place of
\* the page segment among the segments.
OtherSegments ==
  CASE op = "main" -> 2 + B(args.extension # NoneV)
    [] op = "creator" -> 2
    [] op = "top" -> 2 + B(args.subtype # NoneV)
    [] op = "genre" -> 3
    [] op = "user" -> 2 + B(args.request # NoneV)
                        + B(args.request # NoneV /\ args.argument # NoneV)
    [] op = "meta" -> 2 + 2 * B(args.type # NoneV /\ args.period # NoneV)
PagePlace ==
  CASE op = "top" -> 3
    [] op = "main" -> 4
    [] op \in {"creator", "genre", "user", "meta"} -> OtherSegments + 1

PagePieces == {j \in 1..Len(Pieces) : StartsWith(Pieces[j], "page=")}

NoPageSegment ==
  IF op = "search" THEN PagePieces = {}
  ELSE Len(Segments) = OtherSegments

OnePageSegment ==
  IF op = "search"
  THEN PagePieces = {2} /\ Pieces[2] = "page=" \o IntStr(PageArg.i)
  ELSE /\ Len(Segments) = OtherSegments + 1
       /\ Segments[PagePlace] = IntStr(PageArg.i)

\* C3 as stated: for every builder that takes a page and every combination
\* of the other arguments, no page gives no page segment and a page p gives
\* exactly one page segment p at the builder's place.
C3_PageAlwaysRendered ==
  TakesPage => IF PageArg = NoneV THEN NoPageSegment ELSE OnePageSegment

\* get_main_url renders the page only with an extension, get_user_url only
\* with a request.
PageApplies ==
  /\ op = "main" => args.extension # NoneV
  /\ op = "user" => args.request # NoneV

\* C3 (amended): no page gives no page segment; a page p gives exactly one
\* page segment p at the builder's place, except that get_main_url without
\* an extension and get_user_url without a request give no page segment.
C3_PageRenderedWhereItApplies ==
  TakesPage =>
    IF PageArg # NoneV /\ PageApplies THEN OnePageSegment ELSE NoPageSegment

C3_Witness ==
  /\ op = "main" /\ args.page = IntV(2) /\ args.id = 1
  /\ args.extension = StrV("episodes")

\* C4: every builder returns the base URL it was given, unmodified,
\* followed by "/".
C4_StartsWithBase ==
  op # "none" => /\ StartsWith(url, args.base_url \o "/")
                 /\ Len(url) > Len(args.base_url) + 1

C4_Witness ==
  /\ op = "user" /\ args.base_url = "http://Localhost:8000/V3"
  /\ args.request # NoneV /\ args.parameters # NoneV

\* C5: get_top_url returns base/top/<type lower-cased>, then /<page> when a
\* page is given, then /<subtype lower-cased> when a subtype is given: the
\* page comes before the subtype.
C5_TopPageBeforeSubtype ==
  op = "top" =>
    /\ url = args.base_url \o "/top/" \o Lower(args.type)
               \o (IF args.page # NoneV
                   THEN "/" \o IntStr(args.page.i) ELSE "")
               \o (IF args.subtype # NoneV
                   THEN "/" \o Lower(args.subtype.s) ELSE "")
    /\ /\ args.base_url = BASE_URL /\ args.type = "Manga"
       /\ args.page = IntV(2) /\ args.subtype = StrV("TV")
       => url = "https://api.jikan.moe/v3/top/manga/2/tv"
    /\ /\ args.base_url = BASE_URL /\ args.type = "anime"
       /\ args.page = NoneV /\ args.subtype = StrV("airing")
       => url = "https://api.jikan.moe/v3/top/anime/airing"

C5_Witness ==
  /\ op = "top" /\ args.type = "Manga" /\ args.page = IntV(2)
  /\ args.subtype = StrV("TV")

\* C6: get_user_url without a request renders neither the argument nor the
\* page; with parameters, the "?k=v&k=v" block comes last, after the
\* request, argument and page segments, its pairs in the mapping's order.
C6_UserRequestAndQuery ==
  op = "user" =>
    LET parts == Split(Path, "?")
        query == Split(parts[2], "&")
        ps == args.parameters.m
    IN  /\ Segments[1] = "user" /\ Segments[2] = Lower(args.username)
        /\ args.request = NoneV =>
             parts[1] = "user/" \o Lower(args.username)
        /\ args.request # NoneV =>
             Segments = <<"user", Lower(args.username), args.request.s>>
               \o (IF args.argument # NoneV
                   THEN <<PyStr(args.argument)>> ELSE <<>>)
               \o (IF args.page # NoneV
                   THEN <<IntStr(args.page.i)>> ELSE <<>>)
        /\ args.parameters = NoneV => Len(parts) = 1
        /\ args.parameters # NoneV =>
             /\ Len(parts) = 2
             /\ ps = <<>> => parts[2] = ""
             /\ ps # <<>> =>
                  /\ Len(query) = Len(ps)
                  /\ \A j \in 1..Len(ps) :
                       query[j] = ps[j][1] \o "=" \o PyStr(ps[j][2])

C6_Witness ==
  /\ op = "user" /\ args.request = NoneV /\ args.argument = IntV(2)
  /\ args.page = IntV(1)
  /\ args.parameters = MapV(<< <<"type", StrV("tv")>>, <<"genre", IntV(1)>> >>)

\* C7: get_meta_url renders "/<type>/<period>" if and only if both are
\* given, then the offset after it; request, type and period are inserted
\* as they are.
C7_MetaTypeAndPeriod ==
  op = "meta" =>
    /\ Segments = <<"meta", args.request>>
         \o (IF args.type # NoneV /\ args.period # NoneV
             THEN <<args.type.s, args.period.s>> ELSE <<>>)
         \o (IF args.offset # NoneV
             THEN <<IntStr(args.offset.i)>> ELSE <<>>)
    /\ url = args.base_url \o "/" \o Join("/", Segments)
    /\ /\ args.base_url = BASE_URL /\ args.request = "Status"
       /\ args.type = StrV("Anime") /\ args.period = StrV("Today")
       /\ args.offset = IntV(2)
       => url = "https://api.jikan.moe/v3/meta/Status/Anime/Today/2"

C7_Witness ==
  /\ op = "meta" /\ args.request = "Status" /\ args.type = StrV("Anime")
  /\ args.period = NoneV /\ args.offset = IntV(1)

\* C10: get_search_url returns base/search/<type>?q=<query>, then
\* &page=<page> when a page is given, then one &k=v per entry of the
\* parameter mapping in its order.
C10_SearchUrl ==
  op = "search" =>
    LET ps == args.parameters.m
        n == B(args.page # NoneV)
    IN  /\ StartsWith(url, args.base_url \o "/")
        /\ Pieces[1] = "search/" \o args.search_type \o "?q=" \o args.query
        /\ Len(Pieces) = 1 + n + Len(ps)
        /\ args.page # NoneV => Pieces[2] = "page=" \o IntStr(args.page.i)
        /\ \A j \in 1..Len(ps) :
             Pieces[1 + n + j] = ps[j][1] \o "=" \o PyStr(ps[j][2])
        /\ /\ args.search_type = "anime" /\ args.query = "naruto"
           /\ args.page = IntV(2)
           /\ args.parameters = MapV(<< <<"type", StrV("tv")>> >>)
           => url = args.base_url \o "/search/anime?q=naruto&page=2&type=tv"

C10_Witness ==
  /\ op = "search" /\ args.search_type = "anime" /\ args.query = "naruto"
  /\ args.page = IntV(2)
  /\ args.parameters = MapV(<< <<"type", StrV("tv")>> >>)

====
